---- MODULE Spec2Model ----
(***************************************************************************)
(* bench_img.py: a straight-line script.  It synthesises two series over   *)
(* the step domain 0..50 (a decaying curve with seeded normal noise,       *)
(* clipped to [0, 100], and a flat curve at 100.0), draws them with four   *)
(* crash markers, one callout, a threshold line and a legend, and writes   *)
(* the figure to stochastic_drift_benchmark.png.                           *)
(*                                                                         *)
(* pc is the source line about to execute.  Every statement either         *)
(* completes (action L<line>) or raises (action Raise): the script has no  *)
(* try/except, so an exception ends the interpreter with status 1.         *)
(*                                                                         *)
(* Floats are fixed-point integers in units of 1/Unit.  numpy arrays and   *)
(* Python lists are sequences (index i of the code is index i+1 here).     *)
(*                                                                         *)
(* Spec and LiveSpec are the script as written.  SpecRegen executes the    *)
(* synthesis of Series A more than once in one process, from the seeding   *)
(* statement or from the noise draw, on the process's one generator.       *)
(***************************************************************************)
EXTENDS Integers, Sequences, FiniteSets

VARIABLES
    pc,                         \* source line about to execute (60: end of file)
    status,                     \* "running", "done" (exit 0) or "fatal" (uncaught exception)
    exit_status,                \* the interpreter's exit status, NoValue while running
    trace,                      \* the lines that have completed, in order
    style,                      \* matplotlib style in use
    steps,                      \* line 8
    rng,                        \* numpy's global generator: its seed and how many samples it has produced
    stream,                     \* the standard-normal samples the generator seeded with SEED produces
    decay_rate,                 \* line 13
    drift_noise,                \* line 14
    standard_agent_retention,   \* lines 15, 16
    seu_claude_retention,       \* line 20
    crash_indices,              \* line 21
    it,                         \* the for loop's iterator: elements of crash_indices consumed
    crash,                      \* the for loop's variable
    fig,                        \* the figure of line 24
    artists,                    \* what has been drawn on ax, in drawing order
    axes,                       \* title, labels, limits and legend of ax
    file,                       \* the output file
    writes,                     \* calls of plt.savefig
    entry,                      \* the line at which the current execution of the synthesis began
    runs                        \* every clipped Series A produced so far, with its entry line

vars == <<pc, status, exit_status, trace, style, steps, rng, stream, decay_rate,
          drift_noise, standard_agent_retention, seu_claude_retention,
          crash_indices, it, crash, fig, artists, axes, file, writes, entry, runs>>

data == <<steps, decay_rate, drift_noise, standard_agent_retention,
          seu_claude_retention, crash_indices>>

-----------------------------------------------------------------------------
(* Bounds of the model *)

\* how many times the synthesis may be executed in one process under SpecRegen
MaxRegens == 2

\* the largest |z| of a standard-normal sample in the model's streams
MaxZ == 60

(* Fixed-point resolution: values are in units of 1e-6; standard-normal    *)
(* samples are in units of 1e-3, so that a product of two factors in 1e-3  *)
(* is a value in 1e-6.                                                     *)
Milli == 10 * 10 * 10
Unit == Milli * Milli

NoValue == -1

(* Program constants *)
N_STEPS == 51
SEED == 42
DECAY_RATE == 960000
NOISE_LOC == 0
BASE == 100
FULL_VALUE == 100
CLIP_LO == 0
CLIP_HI == 100
MARKER_Y == 100
ANNOTATED == 10
TEXT_DX == 2
TEXT_Y == 85
THRESHOLD == 60
TEXT_X == 1
LABEL_Y == 62
XLIM_HI == 50
YLIM_HI == 105
DPI == 300
FIG_W == 12
FIG_H == 7

\* the scale argument 2.5 of np.random.normal
NOISE_SCALE == (5 * Unit) \div 2

CRASHES == <<10, 22, 35, 42>>

OUTPUT == "stochastic_drift_benchmark.png"

-----------------------------------------------------------------------------
(* numpy *)

\* Arange with the end included
ArangeInclusive(a, b) == [i \in 1..(b - a + 1) |-> a + i - 1]

\* np.arange(a, b)
Arange(a, b) == [i \in 1..(b - a) |-> a + i - 1]

\* a * b for fixed-point a and b, the product formed in two parts to stay
\* within 32 bits
MulFix[a \in Nat, b \in Nat] ==
    (a * (b \div Milli)) \div Milli + (a * (b % Milli)) \div Unit

\* x ** s for fixed-point x and an integer s >= 0, by repeated squaring
Pow[x \in Nat, s \in Nat] ==
    IF s = 0 THEN Unit
    ELSE IF s % 2 = 0 THEN MulFix[Pow[x, s \div 2], Pow[x, s \div 2]]
    ELSE MulFix[MulFix[Pow[x, s \div 2], Pow[x, s \div 2]], x]

\* scalar * array, elementwise
Scale(k, arr) == [i \in DOMAIN arr |-> k * arr[i]]

\* Add with the second operand read one index late
AddShifted(a, b) == [i \in DOMAIN a |-> a[i] + b[(i % Len(b)) + 1]]

\* array + array, elementwise
Add(a, b) == [i \in DOMAIN a |-> a[i] + b[i]]

\* scalar ** array, elementwise
PowArr(x, arr) == [i \in DOMAIN arr |-> Pow[x, arr[i]]]

\* Clip without the upper limit
ClipLowerOnly(arr, lo, hi) == [i \in DOMAIN arr |-> IF arr[i] < lo THEN lo ELSE arr[i]]

\* np.clip(arr, lo, hi)
Clip(arr, lo, hi) ==
    [i \in DOMAIN arr |-> IF arr[i] < lo THEN lo ELSE IF arr[i] > hi THEN hi ELSE arr[i]]

\* np.full(n, v)
Full(n, v) == [i \in 1..n |-> v]

\* loc + scale * z, for a standard-normal sample z
Normal1(loc, scale, z) == loc + (scale \div Milli) * z

\* np.random.normal(loc, scale, size=n) on generator state g: the next n samples
Normal(g, loc, scale, n) == [i \in 1..n |-> Normal1(loc, scale, stream[g.pos + i - 1])]

\* Seeded without the restart of the sequence
SeededNoRestart(s) == [seed |-> s, pos |-> rng.pos]

\* np.random.seed(s): the generator restarts its sequence
Seeded(s) == [seed |-> s, pos |-> 0]

\* the generator after n samples
Drawn(g, n) == [g EXCEPT !.pos = @ + n]

-----------------------------------------------------------------------------
(* The generator's sequence for SEED is fixed by the library and is not    *)
(* computed here: it is any member of Streams(n), chosen once, n being the *)
(* number of samples the process draws.  A stream is b everywhere except   *)
(* for one sample v at position p.                                         *)

ZVals == {-MaxZ * Milli, 0, Milli, MaxZ * Milli}

Streams(n) ==
    {[k \in 0..(n - 1) |-> IF k = p THEN v ELSE b] :
        p \in 0..(n - 1), v \in ZVals, b \in ZVals}

-----------------------------------------------------------------------------
Artist(kind, x, y, aux, label) ==
    [kind |-> kind, x |-> x, y |-> y, aux |-> aux, label |-> label]

\* the interpreter is about to run line 1; the generator will produce `stream`
Start(streams) ==
    /\ pc = 1
    /\ status = "running"
    /\ exit_status = NoValue
    /\ trace = <<>>
    /\ style = "default"
    /\ steps = <<>>
    /\ rng = [seed |-> NoValue, pos |-> 0]
    /\ stream \in streams
    /\ decay_rate = NoValue
    /\ drift_noise = <<>>
    /\ standard_agent_retention = <<>>
    /\ seu_claude_retention = <<>>
    /\ crash_indices = <<>>
    /\ it = 0
    /\ crash = NoValue
    /\ fig = [created |-> FALSE, figsize |-> <<>>, tight |-> FALSE]
    /\ artists = <<>>
    /\ axes = [title |-> "", xlabel |-> "", ylabel |-> "", xlim |-> <<>>,
               ylim |-> <<>>, legend |-> ""]
    /\ file = [name |-> "", dpi |-> 0, state |-> "absent"]
    /\ writes = 0
    /\ entry = 1
    /\ runs = <<>>

\* the script draws len(steps) samples, once
Init == Start(Streams(N_STEPS))

\* Goto that also runs in a process that has failed
GotoAfterFatal(line, next) ==
    /\ pc = line
    /\ pc' = next
    /\ trace' = Append(trace, line)
    /\ UNCHANGED <<status, exit_status>>

\* statement at `line` completes and control passes to `next`
Goto(line, next) ==
    /\ status = "running"
    /\ pc = line
    /\ pc' = next
    /\ trace' = Append(trace, line)
    /\ UNCHANGED <<status, exit_status>>

\* import matplotlib.pyplot as plt
L1 ==
    /\ Goto(1, 2)
    /\ UNCHANGED <<style, steps, rng, stream, decay_rate, drift_noise,
                   standard_agent_retention, seu_claude_retention, crash_indices,
                   it, crash, fig, artists, axes, file, writes, entry, runs>>

\* import numpy as np
L2 ==
    /\ Goto(2, 5)
    /\ UNCHANGED <<style, steps, rng, stream, decay_rate, drift_noise,
                   standard_agent_retention, seu_claude_retention, crash_indices,
                   it, crash, fig, artists, axes, file, writes, entry, runs>>

\* plt.style.use('seaborn-v0_8-whitegrid')
L5 ==
    /\ Goto(5, 8)
    /\ style' = "seaborn-v0_8-whitegrid"
    /\ UNCHANGED <<steps, rng, stream, decay_rate, drift_noise,
                   standard_agent_retention, seu_claude_retention, crash_indices,
                   it, crash, fig, artists, axes, file, writes, entry, runs>>

\* steps = np.arange(0, 51)
L8 ==
    /\ Goto(8, 9)
    /\ steps' = Arange(0, N_STEPS)
    /\ UNCHANGED <<style, rng, stream, decay_rate, drift_noise,
                   standard_agent_retention, seu_claude_retention, crash_indices,
                   it, crash, fig, artists, axes, file, writes, entry, runs>>

\* np.random.seed(42)
L9 ==
    /\ Goto(9, 13)
    /\ rng' = Seeded(SEED)
    /\ UNCHANGED <<style, steps, stream, decay_rate, drift_noise,
                   standard_agent_retention, seu_claude_retention, crash_indices,
                   it, crash, fig, artists, axes, file, writes, entry, runs>>

\* L13 with a rate of 1.0: no decay
L13_NoDecay ==
    /\ Goto(13, 14)
    /\ decay_rate' = Unit
    /\ UNCHANGED <<style, steps, rng, stream, drift_noise,
                   standard_agent_retention, seu_claude_retention, crash_indices,
                   it, crash, fig, artists, axes, file, writes, entry, runs>>

\* decay_rate = 0.96
L13 ==
    /\ Goto(13, 14)
    /\ decay_rate' = DECAY_RATE
    /\ UNCHANGED <<style, steps, rng, stream, drift_noise,
                   standard_agent_retention, seu_claude_retention, crash_indices,
                   it, crash, fig, artists, axes, file, writes, entry, runs>>

\* drift_noise = np.random.normal(0, 2.5, size=len(steps))
L14 ==
    /\ Goto(14, 15)
    /\ rng.seed = SEED
    /\ drift_noise' = Normal(rng, NOISE_LOC, NOISE_SCALE, Len(steps))
    /\ rng' = Drawn(rng, Len(steps))
    /\ UNCHANGED <<style, steps, stream, decay_rate,
                   standard_agent_retention, seu_claude_retention, crash_indices,
                   it, crash, fig, artists, axes, file, writes, entry, runs>>

\* standard_agent_retention = 100 * (decay_rate ** steps) + drift_noise
L15 ==
    /\ Goto(15, 16)
    /\ standard_agent_retention' =
           Add(Scale(BASE, PowArr(decay_rate, steps)), drift_noise)
    /\ UNCHANGED <<style, steps, rng, stream, decay_rate, drift_noise,
                   seu_claude_retention, crash_indices,
                   it, crash, fig, artists, axes, file, writes, entry, runs>>

\* standard_agent_retention = np.clip(standard_agent_retention, 0, 100)
L16 ==
    /\ Goto(16, 20)
    /\ standard_agent_retention' =
           Clip(standard_agent_retention, CLIP_LO * Unit, CLIP_HI * Unit)
    /\ runs' = Append(runs, [entry |-> entry, A |-> standard_agent_retention'])
    /\ UNCHANGED <<style, steps, rng, stream, decay_rate, drift_noise,
                   seu_claude_retention, crash_indices,
                   it, crash, fig, artists, axes, file, writes, entry>>

\* seu_claude_retention = np.full(len(steps), 100.0)
L20 ==
    /\ Goto(20, 21)
    /\ seu_claude_retention' = Full(Len(steps), FULL_VALUE * Unit)
    /\ UNCHANGED <<style, steps, rng, stream, decay_rate, drift_noise,
                   standard_agent_retention, crash_indices,
                   it, crash, fig, artists, axes, file, writes, entry, runs>>

\* crash_indices = [10, 22, 35, 42]
L21 ==
    /\ Goto(21, 24)
    /\ crash_indices' = CRASHES
    /\ UNCHANGED <<style, steps, rng, stream, decay_rate, drift_noise,
                   standard_agent_retention, seu_claude_retention,
                   it, crash, fig, artists, axes, file, writes, entry, runs>>

\* fig, ax = plt.subplots(figsize=(12, 7))
L24 ==
    /\ Goto(24, 27)
    /\ fig' = [created |-> TRUE, figsize |-> <<FIG_W, FIG_H>>, tight |-> FALSE]
    /\ UNCHANGED <<style, steps, rng, stream, decay_rate, drift_noise,
                   standard_agent_retention, seu_claude_retention, crash_indices,
                   it, crash, artists, axes, file, writes, entry, runs>>

\* a drawing call on ax: one more artist, nothing else changes
Draw(line, next, a) ==
    /\ Goto(line, next)
    /\ fig.created
    /\ artists' = Append(artists, a)
    /\ UNCHANGED <<style, steps, rng, stream, decay_rate, drift_noise,
                   standard_agent_retention, seu_claude_retention, crash_indices,
                   it, crash, fig, axes, file, writes, entry, runs>>

\* L27 with the plotted series rescaled in place to fractions of 1
L27_RescalesInPlace ==
    /\ Goto(27, 30)
    /\ fig.created
    /\ standard_agent_retention' =
           [i \in DOMAIN standard_agent_retention |-> standard_agent_retention[i] \div BASE]
    /\ artists' = Append(artists, Artist("line", steps, standard_agent_retention', <<>>,
                                         "Standard Agent (Context Decay)"))
    /\ UNCHANGED <<style, steps, rng, stream, decay_rate, drift_noise,
                   seu_claude_retention, crash_indices,
                   it, crash, fig, axes, file, writes, entry, runs>>

\* ax.plot(steps, standard_agent_retention, label=..., linestyle='--')
L27 ==
    Draw(27, 30, Artist("line", steps, standard_agent_retention, <<>>,
                        "Standard Agent (Context Decay)"))

\* ax.fill_between(steps, standard_agent_retention, 0, ...)
L30 ==
    Draw(30, 33, Artist("fill", steps, standard_agent_retention, <<0>>, ""))

\* ax.plot(steps, seu_claude_retention, label=..., linewidth=3)
L33 ==
    Draw(33, 38, Artist("line", steps, seu_claude_retention, <<>>,
                        "Seu-Claude v2 (Persistent DAG)"))

\* for crash in crash_indices: the next element, or the end of the loop
L38 ==
    /\ status = "running"
    /\ pc = 38
    /\ trace' = Append(trace, 38)
    /\ IF it < Len(crash_indices)
         THEN /\ crash' = crash_indices[it + 1]
              /\ it' = it + 1
              /\ pc' = 39
         ELSE /\ pc' = 47
              /\ UNCHANGED <<crash, it>>
    /\ UNCHANGED <<status, exit_status, style, steps, rng, stream, decay_rate,
                   drift_noise, standard_agent_retention, seu_claude_retention,
                   crash_indices, fig, artists, axes, file, writes, entry, runs>>

\* L39 with the crash also written into Series B as a drop to 0
L39_OverwritesB ==
    /\ Goto(39, 40)
    /\ fig.created
    /\ seu_claude_retention' = [seu_claude_retention EXCEPT ![crash + 1] = 0]
    /\ artists' = Append(artists, Artist("marker", crash, MARKER_Y * Unit, <<>>, ""))
    /\ UNCHANGED <<style, steps, rng, stream, decay_rate, drift_noise,
                   standard_agent_retention, crash_indices,
                   it, crash, fig, axes, file, writes, entry, runs>>

\* ax.scatter(crash, 100, ..., marker='X')
L39 ==
    Draw(39, 40, Artist("marker", crash, MARKER_Y * Unit, <<>>, ""))

\* L40 with the test always true
L40_AlwaysAnnotate ==
    /\ Goto(40, 41)
    /\ UNCHANGED <<style, steps, rng, stream, decay_rate, drift_noise,
                   standard_agent_retention, seu_claude_retention, crash_indices,
                   it, crash, fig, artists, axes, file, writes, entry, runs>>

\* if crash == 10:
L40 ==
    /\ Goto(40, IF crash = ANNOTATED THEN 41 ELSE 38)
    /\ UNCHANGED <<style, steps, rng, stream, decay_rate, drift_noise,
                   standard_agent_retention, seu_claude_retention, crash_indices,
                   it, crash, fig, artists, axes, file, writes, entry, runs>>

\* ax.annotate('Crash & Recover...', xy=(crash, 100), xytext=(crash+2, 85), ...)
L41 ==
    Draw(41, 38, Artist("annotation", crash, MARKER_Y * Unit,
                        <<crash + TEXT_DX, TEXT_Y * Unit>>,
                        "Crash & Recover (No State Loss)"))

\* a setter of ax: one property changes, nothing else
SetAx(line, next, new) ==
    /\ Goto(line, next)
    /\ fig.created
    /\ axes' = new
    /\ UNCHANGED <<style, steps, rng, stream, decay_rate, drift_noise,
                   standard_agent_retention, seu_claude_retention, crash_indices,
                   it, crash, fig, artists, file, writes, entry, runs>>

\* ax.set_title(...)
L47 ==
    SetAx(47, 48, [axes EXCEPT !.title =
        "Stochastic Drift vs. Deterministic State (50-Step Task)"])

\* ax.set_xlabel(...)
L48 == SetAx(48, 49, [axes EXCEPT !.xlabel = "Execution Step (Task Depth)"])

\* ax.set_ylabel(...)
L49 == SetAx(49, 50, [axes EXCEPT !.ylabel = "Effective Context Retention (%)"])

\* ax.set_xlim(0, 50)
L50 == SetAx(50, 51, [axes EXCEPT !.xlim = <<0, XLIM_HI>>])

\* ax.set_ylim(0, 105)
L51 == SetAx(51, 54, [axes EXCEPT !.ylim = <<0, YLIM_HI * Unit>>])

\* ax.axhline(y=60, linestyle=':')
L54 == Draw(54, 55, Artist("hline", <<>>, THRESHOLD * Unit, <<>>, ""))

\* ax.text(1, 62, 'Hallucination Threshold (Unreliable Zone)', ...)
L55 ==
    Draw(55, 57, Artist("text", TEXT_X, LABEL_Y * Unit, <<>>,
                        "Hallucination Threshold (Unreliable Zone)"))

\* L57 followed directly by the write, without the layout adjustment
L57_SkipsLayout == SetAx(57, 59, [axes EXCEPT !.legend = "lower left"])

\* ax.legend(loc='lower left', ...)
L57 == SetAx(57, 58, [axes EXCEPT !.legend = "lower left"])

\* plt.tight_layout()
L58 ==
    /\ Goto(58, 59)
    /\ fig.created
    /\ fig' = [fig EXCEPT !.tight = TRUE]
    /\ UNCHANGED <<style, steps, rng, stream, decay_rate, drift_noise,
                   standard_agent_retention, seu_claude_retention, crash_indices,
                   it, crash, artists, axes, file, writes, entry, runs>>

\* plt.savefig('stochastic_drift_benchmark.png', dpi=300)
L59 ==
    /\ Goto(59, 60)
    /\ fig.created
    /\ file' = [name |-> OUTPUT, dpi |-> DPI, state |-> "complete"]
    /\ writes' = writes + 1
    /\ UNCHANGED <<style, steps, rng, stream, decay_rate, drift_noise,
                   standard_agent_retention, seu_claude_retention, crash_indices,
                   it, crash, fig, artists, axes, entry, runs>>

\* end of file: the interpreter exits with status 0
Exit ==
    /\ status = "running"
    /\ pc = 60
    /\ status' = "done"
    /\ exit_status' = 0
    /\ UNCHANGED <<pc, trace, style, steps, rng, stream, decay_rate, drift_noise,
                   standard_agent_retention, seu_claude_retention, crash_indices,
                   it, crash, fig, artists, axes, file, writes, entry, runs>>

\* the statement at pc raises: no handler exists, the interpreter prints the
\* traceback and exits with status 1.  Nothing the statement would have
\* assigned is assigned.
Raise ==
    /\ status = "running"
    /\ pc \in 1..58
    /\ status' = "fatal"
    /\ exit_status' = 1
    /\ UNCHANGED <<pc, trace, style, steps, rng, stream, decay_rate, drift_noise,
                   standard_agent_retention, seu_claude_retention, crash_indices,
                   it, crash, fig, artists, axes, file, writes, entry, runs>>

\* plt.savefig raises: the call was made, and the file is absent (the path
\* could not be opened) or incomplete (the encoder or the write failed)
RaiseSavefig ==
    /\ status = "running"
    /\ pc = 59
    /\ status' = "fatal"
    /\ exit_status' = 1
    /\ writes' = writes + 1
    /\ \E st \in {"absent", "partial"} :
           file' = [name |-> OUTPUT, dpi |-> DPI, state |-> st]
    /\ UNCHANGED <<pc, trace, style, steps, rng, stream, decay_rate, drift_noise,
                   standard_agent_retention, seu_claude_retention, crash_indices,
                   it, crash, fig, artists, axes, entry, runs>>

Synthesis == L1 \/ L2 \/ L5 \/ L8 \/ L9 \/ L13 \/ L14 \/ L15 \/ L16 \/ L20 \/ L21

MarkerLoop == L38 \/ L39 \/ L40 \/ L41

Rendering ==
    \/ L24 \/ L27 \/ L30 \/ L33
    \/ MarkerLoop
    \/ L47 \/ L48 \/ L49 \/ L50 \/ L51 \/ L54 \/ L55 \/ L57 \/ L58 \/ L59

Next == Synthesis \/ Rendering \/ Exit \/ Raise \/ RaiseSavefig

Spec == Init /\ [][Next]_vars

\* every statement returns or raises, and the interpreter runs the next one
LiveSpec == Spec /\ WF_vars(Next)

-----------------------------------------------------------------------------
(* Regeneration: the synthesis executed again in the same process, with    *)
(* the process's generator state as the first execution left it.           *)

\* the synthesis again from the seeding statement (lines 9-16)
RegenFromSeed ==
    /\ status = "running"
    /\ pc = 20
    /\ Len(runs) < MaxRegens
    /\ pc' = 9
    /\ entry' = 9
    /\ UNCHANGED <<status, exit_status, trace, style, steps, rng, stream,
                   decay_rate, drift_noise, standard_agent_retention,
                   seu_claude_retention, crash_indices, it, crash, fig, artists,
                   axes, file, writes, runs>>

\* the synthesis again from the noise draw (lines 14-16)
RegenFromDraw ==
    /\ status = "running"
    /\ pc = 20
    /\ Len(runs) < MaxRegens
    /\ pc' = 14
    /\ entry' = 14
    /\ UNCHANGED <<status, exit_status, trace, style, steps, rng, stream,
                   decay_rate, drift_noise, standard_agent_retention,
                   seu_claude_retention, crash_indices, it, crash, fig, artists,
                   axes, file, writes, runs>>

NextRegen ==
    \/ L1 \/ L2 \/ L5 \/ L8 \/ L9 \/ L13 \/ L14 \/ L15 \/ L16
    \/ RegenFromSeed \/ RegenFromDraw

InitRegen == Start(Streams(MaxRegens * N_STEPS))

SpecRegen == InitRegen /\ [][NextRegen]_vars

-----------------------------------------------------------------------------
(* Vocabulary of the properties *)

\* the statement at `line` has completed at least once
Executed(line) == \E i \in DOMAIN trace : trace[i] = line

\* s is a prefix of t
IsPrefix(s, t) == Len(s) <= Len(t) /\ \A i \in DOMAIN s : s[i] = t[i]

\* the artists of one kind, in drawing order
OfKind(k) == SelectSeq(artists, LAMBDA a : a.kind = k)

\* 100 x 0.96^s for s in 0..50, at the model's resolution
DecayTable == [s \in 0..50 |-> 100 * Pow[960000, s]]

\* the value before clipping at index i, from the noise that was drawn
Unclipped(i) == DecayTable[i - 1] + drift_noise[i]

InUnitRange(v) == 0 <= v /\ v <= 100 * Unit

\* the lines of a failure-free run, in order
LinearOrder ==
    <<1, 2, 5, 8, 9, 13, 14, 15, 16, 20, 21, 24, 27, 30, 33,
      38, 39, 40, 41, 38, 39, 40, 38, 39, 40, 38, 39, 40, 38,
      47, 48, 49, 50, 51, 54, 55, 57, 58, 59>>

-----------------------------------------------------------------------------
\* C1: once line 16 has clipped it, every value of Series A is in [0, 100],
\* in every later state, and so is every value of it handed to ax.plot and
\* ax.fill_between, whatever noise was drawn.
C1_SeriesAInRange ==
    Executed(16) =>
        /\ Len(standard_agent_retention) = 51
        /\ \A i \in DOMAIN standard_agent_retention :
               InUnitRange(standard_agent_retention[i])
        /\ \A k \in DOMAIN artists :
               artists[k].kind \in {"line", "fill"} =>
                   \A i \in DOMAIN artists[k].y : InUnitRange(artists[k].y[i])

\* the run ended, and the noise had pushed one value above 100 and one below 0
C1_Witness ==
    /\ status = "done"
    /\ \E i \in 1..51 : Unclipped(i) > 100 * Unit
    /\ \E i \in 1..51 : Unclipped(i) < 0

\* C2: from line 20 on, Series B is 100.0 at each of the 51 steps, in every
\* state to the end of the process; the marker loop leaves it so.
C2_SeriesBConstant ==
    Executed(20) =>
        /\ Len(seu_claude_retention) = 51
        /\ \A i \in 1..51 : seu_claude_retention[i] = 100 * Unit

\* the run ended with all four markers drawn
C2_Witness == status = "done" /\ Len(OfKind("marker")) = 4

Reseeded(r) == r.entry <= 9

C4_MarkersAndCallout ==
    (pc \in 47..60) =>
        /\ Len(OfKind("marker")) = 4
        /\ {OfKind("marker")[k].x : k \in 1..4} = {10, 22, 35, 42}
        /\ \A k \in 1..4 : OfKind("marker")[k].y = 100 * Unit
        /\ Len(OfKind("annotation")) = 1
        /\ OfKind("annotation")[1].x = 10
        /\ OfKind("annotation")[1].y = 100 * Unit

\* the loop has ended and the run went on to the end
C4_Witness == status = "done" /\ it = 4 /\ crash = 42

\* C5: steps is 0, 1, ..., 50; the noise, Series A and Series B have 51
\* values each; both line traces are drawn against steps.
C5_SharedStepDomain ==
    /\ Executed(8) =>
           /\ Len(steps) = 51
           /\ steps[1] = 0
           /\ steps[51] = 50
           /\ \A i \in 1..50 : steps[i + 1] = steps[i] + 1
    /\ Executed(14) => Len(drift_noise) = 51
    /\ Executed(15) => Len(standard_agent_retention) = 51
    /\ Executed(20) => Len(seu_claude_retention) = 51
    /\ \A k \in DOMAIN artists :
           artists[k].kind \in {"line", "fill"} =>
               artists[k].x = steps /\ Len(artists[k].y) = Len(steps)

\* both series have been drawn
C5_Witness == status = "done" /\ Len(OfKind("line")) = 2

\* C6, the states: the completed lines are always a prefix of the one linear
\* order; savefig is called at most once and only after every other line;
\* a run that ends without failure has run the whole order, written the
\* complete file once and exits 0.
C6_Order ==
    /\ IsPrefix(trace, LinearOrder)
    /\ writes <= 1
    /\ writes = 1 => IsPrefix(SubSeq(LinearOrder, 1, 38), trace) /\ fig.tight
    /\ file.state = "complete" => Executed(59) /\ writes = 1
    /\ status = "done" =>
           /\ trace = LinearOrder
           /\ writes = 1
           /\ file = [name |-> OUTPUT, dpi |-> 300, state |-> "complete"]
           /\ exit_status = 0

\* C6: the order above holds throughout, and every run ends: it exits 0
\* after the write unless a statement raised.
C6_LinearOnce == [](C6_Order) /\ <>(status = "done" \/ status = "fatal")

\* a failure-free run has ended
C6_Witness == status = "done" /\ writes = 1 /\ Len(trace) = 39

\* C7, the states: a failed process has a non-zero exit status, and if the
\* failing statement is not savefig, savefig was never called and there is
\* no file.
C7_Fatal ==
    status = "fatal" =>
        /\ exit_status # 0 /\ exit_status # NoValue
        /\ pc # 59 => writes = 0 /\ file.state = "absent"
        /\ ~ Executed(59)

\* C7: the above, and no step is ever taken from a failed state: no later
\* statement runs and the failed one is not run again.
C7_FailStop == [](C7_Fatal) /\ [][status # "fatal"]_vars

\* the scatter call of the second loop iteration raised
C7_Witness == status = "fatal" /\ pc = 39 /\ it = 2 /\ Len(OfKind("marker")) = 1

\* C8: from the completion of line 21 on, no step changes steps, the noise,
\* Series A, Series B, the decay rate or the crash indices.
C8_DataFrozen == [][Executed(21) => UNCHANGED data]_vars

\* the whole rendering and the write have run on the data
C8_Witness ==
    /\ status = "done"
    /\ Len(artists) = 10
    /\ standard_agent_retention = runs[1].A
    /\ crash_indices = <<10, 22, 35, 42>>

\* the decay term line 15 computed at index i: the sum less the noise added
DecayTerm(i) == standard_agent_retention[i] - drift_noise[i]

\* C9: the decay term computed by line 15 is strictly decreasing over the
\* steps, is exactly 100 at step 0 and is 13.0, to within 0.05, at step 50.
C9_DecayStrictlyDecreasing ==
    (pc = 16 /\ Executed(15)) =>
        /\ \A i \in 1..50 : DecayTerm(i + 1) < DecayTerm(i)
        /\ DecayTerm(1) = 100 * Unit
        /\ DecayTerm(51) > 13 * Unit - 50 * Milli
        /\ DecayTerm(51) < 13 * Unit + 50 * Milli

\* line 15 has run on a noise array that is not all zero
C9_Witness ==
    /\ pc = 16 /\ Executed(15) /\ status = "running"
    /\ \E i \in 1..51 : drift_noise[i] # 0

\* C10: after line 16, Series A at step s is 100 x 0.96^s plus the s-th
\* sample drawn, scaled by 2.5, clamped to [0, 100]: 0 if below, 100 if
\* above, unchanged otherwise.
C10_SeriesAFormula ==
    (Executed(16) /\ Len(runs) = 1) =>
        \A s \in 0..50 :
            LET noise == (5 * stream[s] * Milli) \div 2
                raw == DecayTable[s] + noise
            IN  /\ drift_noise[s + 1] = noise
                /\ raw < 0 => standard_agent_retention[s + 1] = 0
                /\ raw > 100 * Unit => standard_agent_retention[s + 1] = 100 * Unit
                /\ InUnitRange(raw) => standard_agent_retention[s + 1] = raw

\* a clipped series in which one value was raised to 0, one lowered to 100
\* and one left as computed
C10_Witness ==
    /\ Executed(16) /\ pc = 20
    /\ \E i \in 1..51 : Unclipped(i) < 0
    /\ \E i \in 1..51 : Unclipped(i) > 100 * Unit
    /\ \E i \in 1..51 : InUnitRange(Unclipped(i)) /\ Unclipped(i) # 0
                        /\ Unclipped(i) # 100 * Unit
====
